---- MODULE Spec2Model ----
(***************************************************************************)
(* A model of the DNA read filter: the cascading primer locator            *)
(* (search_functions.py), the dataset validator, the parallel file         *)
(* processor (main_sequence_filtering.py) and the parameter optimisation   *)
(* loop (learning_algorithm.py, learning_helper_functions.py,              *)
(* naive_dna_sequence_filter.py).                                          *)
(*                                                                         *)
(* Sequences of bases are strings.  Positions are 0-based as in the Python  *)
(* source; Slice gives Python's s[a:b].                                    *)
(* The pairwise aligner (Bio.Align.PairwiseAligner) is an oracle: the      *)
(* alignments it returns and the scores it gives are inputs drawn from     *)
(* small sets at the step of the code that calls it.                       *)
(***************************************************************************)
EXTENDS Integers, Sequences, FiniteSets, TLC

VARIABLES
    MACHINE_LEARNING_MODE,  \* config.py: parameter-search mode
    DEBUG_MODE,             \* config.py: debug tracing
    scores,                 \* the ScoringParameters of the run
    pc,                     \* position inside search_seq_and_write
    sequence,               \* the read being classified
    valid_alignments,       \* get_valid_alignments(..., PRIMERS)
    valid_alignments_rc,    \* get_valid_alignments(..., PRIMERS_RC)
    data_set,               \* the reference entries the validator scanned
    result,                 \* the MatchResult returned for the read
    extracted,              \* the insert extracted for the read, with its stage
    stages,                 \* the stages tried for the read, in order
    aligner_called,         \* whether the local aligner was run on the read
    validated,              \* the validator's report, when it was called
    out_wo,                 \* lines of the without-primers stream
    out_with,               \* lines of the with-primers stream
    prev,                   \* the previous read and what was extracted from it
    corpus,                 \* the .fastq files of the input directory, as read sets
    data_set_readable,      \* whether the file at DATA_SET_PATH can be opened
    naive_percent_filtered, \* naive_filtering_percent_of_dir's result
    futures,                \* run_filtering: the future of each submitted file
    eval_stats,             \* run_filtering: the aggregate Statistics
    file_stats_list,        \* run_filtering: the files collected, in order
    trials,                 \* the evaluations fmin has recorded
    max_evals,              \* run_tpe: the max_evals given to fmin
    started,                \* run_tpe: the calls of objective begun so far
    best,                   \* run_tpe: the parameters fmin returned
    best_score,             \* run_tpe: the score it returns with them
    compare_aligner,        \* the PairwiseAligner last configured
    min_score_calls,        \* the calls of percentage_to_min_score so far
    input_dir,              \* os.listdir(input_dir): the names of its entries
    workers                 \* process_file: each worker's file and open paths

\* the variables of search_seq_and_write on one read
readVars == <<sequence, valid_alignments, valid_alignments_rc, data_set, result,
              extracted, stages, aligner_called, validated, out_wo, out_with,
              prev>>

\* the variables of the run over the input directory
pipeVars == <<corpus, data_set_readable, naive_percent_filtered, futures,
              eval_stats, file_stats_list, trials>>

\* the variables of run_tpe around fmin
tpeVars == <<max_evals, started, best, best_score>>

\* the variables of the aligner configuration
alignerVars == <<compare_aligner, min_score_calls>>

\* the variables of the workers' output streams
streamVars == <<input_dir, workers>>

vars == <<MACHINE_LEARNING_MODE, DEBUG_MODE, scores, pc, readVars, pipeVars,
          tpeVars, alignerVars, streamVars>>

\* ------------------------------------------------------------------ config

\* config.py: expected insert length and index-prefix length
LIB_LENGTH == 140
INDEX_LEN == 12

FRONT_PRIMER == "TCGTCGGCAGCGTCAGATGTGTATAAGAGACAG"
BACK_PRIMER == "CTGTCTCTTATACACATCTCCGAGCCCACGAGAC"
PRIMERS == [front |-> FRONT_PRIMER, back |-> BACK_PRIMER]

FOUND_VALID_MATCH == "FOUND_VALID_MATCH"
FOUND_INVALID_MATCH == "FOUND_INVALID_MATCH"
NO_MATCH_FOUND == "NO_MATCH_FOUND"
MatchResult == {FOUND_VALID_MATCH, FOUND_INVALID_MATCH, NO_MATCH_FOUND}

\* ----------------------------------------------------------------- helpers

complement_map == [b \in {"A", "C", "G", "T"} |->
    CASE b = "A" -> "T" [] b = "C" -> "G" [] b = "G" -> "C" [] b = "T" -> "A"]

\* the complement of every base, in reverse order (by halves: the right half
\* reversed, then the left half reversed)
RECURSIVE copy_reverse_complement(_)
copy_reverse_complement(s) ==
    IF Len(s) = 0 THEN ""
    ELSE IF Len(s) = 1 THEN complement_map[s]
    ELSE LET h == Len(s) \div 2
         IN copy_reverse_complement(SubSeq(s, h + 1, Len(s)))
            \o copy_reverse_complement(SubSeq(s, 1, h))

PRIMERS_RC == [front |-> copy_reverse_complement(PRIMERS.back),
               back  |-> copy_reverse_complement(PRIMERS.front)]

\* Python's slice index: a negative index counts from the end, and an index
\* outside the sequence is clipped to it.
ClipIndex(n, i) ==
    IF i < 0 THEN (IF i + n < 0 THEN 0 ELSE i + n)
             ELSE (IF i > n THEN n ELSE i)

\* Python's s[a:b]
Slice(s, a, b) ==
    LET lo == ClipIndex(Len(s), a)
        hi == ClipIndex(Len(s), b)
    IN IF lo < hi THEN SubSeq(s, lo + 1, hi) ELSE ""

\* Seq.find: the 0-based position of the first occurrence, or -1
find(s, sub) ==
    LET hits == {i \in 0..(Len(s) - Len(sub)) : SubSeq(s, i + 1, i + Len(sub)) = sub}
    IN IF hits = {} THEN -1
       ELSE CHOOSE i \in hits : \A j \in hits : i <= j

\* An alignment is <<start, end>>: the half-open interval of the read it covers.
get_alignment_positions(alignment) ==
    [start_pos |-> alignment[1], end_pos |-> alignment[2]]

\* the penalties summed instead of averaged
percentage_to_min_score_sum_penalty(aligner, pct, length) ==
    LET max_score == aligner.match_score * length
        penalty == aligner.mismatch_score + aligner.open_gap_score
                   + aligner.extend_gap_score
    IN (max_score * pct * 3) + (penalty * 3 * (100 - pct) * length)

\* min_score * 300: pct is the wanted match percentage in percent, so the value
\* returned is 300 times the source's (the division by 3 and the two
\* percentages are cleared); ScoreAtLeast compares a score with it.
percentage_to_min_score(aligner, pct, length) ==
    LET max_score == aligner.match_score * length
        penalty3 == aligner.mismatch_score + aligner.open_gap_score
                    + aligner.extend_gap_score
    IN (max_score * pct * 3) + (penalty3 * (100 - pct) * length)

ScoreAtLeast(score, min300) == score * 300 >= min300

\* set_aligner_parameters: the aligner carries the scores; the minimum is
\* derived from them
set_aligner_parameters(sc, mode, pct, length) ==
    [aligner |-> [mode |-> mode, match_score |-> sc.match_score,
                  mismatch_score |-> sc.mismatch_score,
                  open_gap_score |-> sc.open_gap_score,
                  extend_gap_score |-> sc.extend_gap_score],
     min_valid_score |-> percentage_to_min_score(sc, pct, length)]

\* run_filtering's comparison aligner: global mode, 0.85, length INDEX_LEN
compare_params(sc) == set_aligner_parameters(sc, "global", 85, INDEX_LEN)

\* -------------------------------------------------------- dataset validator

\* A reference entry as the validator sees it: its length, and the global
\* alignment scores the aligner gives the candidate against it (index prefix
\* against index prefix, and full against full).
RECURSIVE ScanDataSet(_, _, _, _, _)
ScanDataSet(cp, min_valid_score, ds, i, aligned) ==
    IF i > Len(ds)
    THEN [res |-> FOUND_INVALID_MATCH, full_aligned |-> aligned, scanned |-> Len(ds)]
    ELSE IF ds[i].len = 0
    THEN ScanDataSet(cp, min_valid_score, ds, i + 1, aligned)
    ELSE IF ScoreAtLeast(ds[i].idx_score, cp.min_valid_score)
    THEN IF ScoreAtLeast(ds[i].seq_score, min_valid_score)
         THEN [res |-> FOUND_VALID_MATCH, full_aligned |-> aligned \cup {i},
               scanned |-> i]
         ELSE ScanDataSet(cp, min_valid_score, ds, i + 1, aligned \cup {i})
    ELSE ScanDataSet(cp, min_valid_score, ds, i + 1, aligned)

\* the full check against the index minimum instead of the candidate's
compare_seq_to_dataset_index_min(cp, seq, ds) ==
    ScanDataSet(cp, cp.min_valid_score, ds, 1, {})

compare_seq_to_dataset(cp, seq, ds) ==
    ScanDataSet(cp, percentage_to_min_score(cp.aligner, 85, Len(seq)), ds, 1, {})

\* ------------------------------------------------------------ the locator

NoExtract == [found |-> FALSE, wo |-> "", with |-> "", is_reversed |-> FALSE]

\* an extraction with the attempt that made it
Tag(r, name) == [found |-> r.found, wo |-> r.wo, with |-> r.with,
                 is_reversed |-> r.is_reversed,
                 attempt |-> IF r.found THEN name ELSE "none"]

search_exact_match(seq, primers) ==
    LET f_end == find(seq, primers.front)
        b_start == find(seq, primers.back)
        f_start == f_end - Len(primers.front)
        b_end == b_start + Len(primers.back)
        seq_without_primers == Slice(seq, f_end, b_start)
    IN IF /\ f_end # -1
          /\ b_start # -1
          /\ LIB_LENGTH - 5 <= Len(seq_without_primers)
          /\ Len(seq_without_primers) <= LIB_LENGTH + 5
       THEN [found |-> TRUE, wo |-> seq_without_primers,
             with |-> Slice(seq, f_start, b_end), is_reversed |-> FALSE]
       ELSE NoExtract

RECURSIVE BothLoop(_, _, _, _, _)
BothLoop(va, seq, is_reversed, i, j) ==
    IF i > Len(va.front) THEN NoExtract
    ELSE IF j > Len(va.back) THEN BothLoop(va, seq, is_reversed, i + 1, 1)
    ELSE LET f == get_alignment_positions(va.front[i])
             b == get_alignment_positions(va.back[j])
             distance == b.start_pos - f.end_pos
             seq_without_primers == Slice(seq, f.end_pos, b.start_pos)
             seq_with_primers == Slice(seq, f.start_pos, b.end_pos)
         IN IF LIB_LENGTH - 5 <= distance /\ distance <= LIB_LENGTH + 5
            THEN [found |-> TRUE,
                  wo |-> IF is_reversed
                         THEN copy_reverse_complement(seq_without_primers)
                         ELSE seq_without_primers,
                  with |-> IF is_reversed
                           THEN copy_reverse_complement(seq_with_primers)
                           ELSE seq_with_primers,
                  is_reversed |-> is_reversed]
            ELSE BothLoop(va, seq, is_reversed, i, j + 1)

\* the pairs tried back alignment by back alignment
RECURSIVE BothLoopBackMajor(_, _, _, _, _)
BothLoopBackMajor(va, seq, is_reversed, i, j) ==
    IF j > Len(va.back) THEN NoExtract
    ELSE IF i > Len(va.front) THEN BothLoopBackMajor(va, seq, is_reversed, 1, j + 1)
    ELSE LET f == get_alignment_positions(va.front[i])
             b == get_alignment_positions(va.back[j])
             distance == b.start_pos - f.end_pos
             seq_without_primers == Slice(seq, f.end_pos, b.start_pos)
             seq_with_primers == Slice(seq, f.start_pos, b.end_pos)
         IN IF LIB_LENGTH - 5 <= distance /\ distance <= LIB_LENGTH + 5
            THEN [found |-> TRUE,
                  wo |-> IF is_reversed
                         THEN copy_reverse_complement(seq_without_primers)
                         ELSE seq_without_primers,
                  with |-> IF is_reversed
                           THEN copy_reverse_complement(seq_with_primers)
                           ELSE seq_with_primers,
                  is_reversed |-> is_reversed]
            ELSE BothLoopBackMajor(va, seq, is_reversed, i + 1, j)

search_both_primers_helper_back_major(va, seq, is_reversed) ==
    BothLoopBackMajor(va, seq, is_reversed, 1, 1)

search_both_primers_helper(va, seq, is_reversed) ==
    BothLoop(va, seq, is_reversed, 1, 1)

search_both_primers(va, va_rc, seq) ==
    LET search_res == search_both_primers_helper(va, seq, FALSE)
    IN IF search_res.found THEN Tag(search_res, "both")
       ELSE Tag(search_both_primers_helper(va_rc, seq, TRUE), "both_rc")

RECURSIVE FrontLoop(_, _, _, _)
FrontLoop(vaf, seq, is_reversed, i) ==
    IF i > Len(vaf) THEN NoExtract
    ELSE LET f == get_alignment_positions(vaf[i])
             start_pos == f.end_pos
             end_pos == start_pos + LIB_LENGTH
             seq_with_primers == Slice(seq, f.start_pos, end_pos)
             seq_without_primers == Slice(seq, start_pos, end_pos)
         IN IF end_pos >= Len(seq)
            THEN FrontLoop(vaf, seq, is_reversed, i + 1)
            ELSE [found |-> TRUE,
                  wo |-> IF is_reversed
                         THEN copy_reverse_complement(seq_without_primers)
                         ELSE seq_without_primers,
                  with |-> IF is_reversed
                           THEN copy_reverse_complement(seq_with_primers)
                           ELSE seq_with_primers,
                  is_reversed |-> is_reversed]

search_single_front_primer_helper(vaf, seq, is_reversed) ==
    FrontLoop(vaf, seq, is_reversed, 1)

\* the window starting at the read's first base rejected as well
RECURSIVE BackLoop_reject_zero(_, _, _, _)
BackLoop_reject_zero(vab, seq, is_reversed, i) ==
    IF i > Len(vab) THEN NoExtract
    ELSE LET b == get_alignment_positions(vab[i])
             end_pos == b.start_pos
             start_pos == end_pos - LIB_LENGTH
             seq_with_primers == Slice(seq, start_pos, b.end_pos)
             seq_without_primers == Slice(seq, start_pos, end_pos)
         IN IF start_pos <= 0
            THEN BackLoop_reject_zero(vab, seq, is_reversed, i + 1)
            ELSE [found |-> TRUE,
                  wo |-> IF is_reversed
                         THEN copy_reverse_complement(seq_without_primers)
                         ELSE seq_without_primers,
                  with |-> IF is_reversed
                           THEN copy_reverse_complement(seq_with_primers)
                           ELSE seq_with_primers,
                  is_reversed |-> is_reversed]

RECURSIVE BackLoop(_, _, _, _)
BackLoop(vab, seq, is_reversed, i) ==
    IF i > Len(vab) THEN NoExtract
    ELSE LET b == get_alignment_positions(vab[i])
             end_pos == b.start_pos
             start_pos == end_pos - LIB_LENGTH
             seq_with_primers == Slice(seq, start_pos, b.end_pos)
             seq_without_primers == Slice(seq, start_pos, end_pos)
         IN IF start_pos < 0
            THEN BackLoop(vab, seq, is_reversed, i + 1)
            ELSE [found |-> TRUE,
                  wo |-> IF is_reversed
                         THEN copy_reverse_complement(seq_without_primers)
                         ELSE seq_without_primers,
                  with |-> IF is_reversed
                           THEN copy_reverse_complement(seq_with_primers)
                           ELSE seq_with_primers,
                  is_reversed |-> is_reversed]

search_single_back_primer_helper(vab, seq, is_reversed) ==
    BackLoop(vab, seq, is_reversed, 1)

\* the back-primer attempts made before the front-primer ones
search_single_primer_back_first(va, va_rc, seq) ==
    LET search_res_front == search_single_front_primer_helper(va.front, seq, FALSE)
        search_res_front_rc == search_single_front_primer_helper(va_rc.front, seq, TRUE)
        search_res_back == search_single_back_primer_helper(va.back, seq, FALSE)
        search_res_back_rc == search_single_back_primer_helper(va_rc.back, seq, TRUE)
    IN IF search_res_back.found THEN Tag(search_res_back, "back")
       ELSE IF search_res_back_rc.found THEN Tag(search_res_back_rc, "back_rc")
       ELSE IF search_res_front.found THEN Tag(search_res_front, "front")
       ELSE Tag(search_res_front_rc, "front_rc")

\* the four attempts in the order of the source; [attempt, the extraction]
search_single_primer(va, va_rc, seq) ==
    LET search_res_front == search_single_front_primer_helper(va.front, seq, FALSE)
        search_res_front_rc == search_single_front_primer_helper(va_rc.front, seq, TRUE)
        search_res_back == search_single_back_primer_helper(va.back, seq, FALSE)
        search_res_back_rc == search_single_back_primer_helper(va_rc.back, seq, TRUE)
    IN IF search_res_front.found THEN Tag(search_res_front, "front")
       ELSE IF search_res_front_rc.found THEN Tag(search_res_front_rc, "front_rc")
       ELSE IF search_res_back.found THEN Tag(search_res_back, "back")
       ELSE Tag(search_res_back_rc, "back_rc")

\* the attempts search_single_primer makes, in the order it makes them: each
\* helper is called only when the ones before it returned NO_MATCH_FOUND
single_primer_tried(va, va_rc, seq) ==
    IF search_single_front_primer_helper(va.front, seq, FALSE).found
    THEN <<"front">>
    ELSE IF search_single_front_primer_helper(va_rc.front, seq, TRUE).found
    THEN <<"front", "front_rc">>
    ELSE IF search_single_back_primer_helper(va.back, seq, FALSE).found
    THEN <<"front", "front_rc", "back">>
    ELSE <<"front", "front_rc", "back", "back_rc">>

\* the exact-match stage of search_seq_and_write: PRIMERS, then PRIMERS_RC
search_exact(seq) ==
    LET fwd == search_exact_match(seq, PRIMERS)
    IN IF fwd.found THEN Tag(fwd, "exact")
       ELSE Tag(search_exact_match(seq, PRIMERS_RC), "exact_rc")

\* ----------------------------------------------------------------- inputs

\* at most this many valid alignments are returned for one read, over both
\* primers and both orientations
MaxAlign == 4
\* at most this many entries in the reference data set
MaxDataSet == 2

\* n bases A
RECURSIVE Fill(_)
Fill(n) ==
    IF n = 0 THEN "" ELSE IF n = 1 THEN "A"
    ELSE Fill(n \div 2) \o Fill(n - (n \div 2))

\* front primer, gap bases, back primer, after pre leading bases
BothRead(pre, gap) == Fill(pre) \o FRONT_PRIMER \o Fill(gap) \o BACK_PRIMER

\* The reads given to the locator: both primers exact around a gap of 102,
\* 107, 112 or 140 bases (with and without leading bases), the reverse
\* complement of one of them, the front primer alone followed by 140 and by
\* 141 bases, and a read with no primer.
ReadInputs ==
    {BothRead(0, 102), BothRead(0, 107), BothRead(0, 112), BothRead(40, 107),
     BothRead(0, 140),
     copy_reverse_complement(BothRead(0, 107)),
     FRONT_PRIMER \o Fill(140),
     FRONT_PRIMER \o Fill(141),
     Fill(50)}

\* The scoring parameters of the run (integers inside the search space)
ScoresSpace ==
    {[match_score |-> 4, mismatch_score |-> -3, open_gap_score |-> -4,
      extend_gap_score |-> -3],
     [match_score |-> 4, mismatch_score |-> -4, open_gap_score |-> -4,
      extend_gap_score |-> -4]}

DefaultScores == [match_score |-> 4, mismatch_score |-> -3,
                  open_gap_score |-> -4, extend_gap_score |-> -3]

\* The places the aligner may report a primer in a read of length n: at the
\* read's start, five bases in, and where the insert window after it ends at
\* the read's end (front); at the read's end and five bases before it (back).
FrontChoices(n) ==
    {a \in {<<0, 33>>, <<5, 38>>, <<n - 174, n - 140>>} : a[1] >= 0 /\ a[2] <= n}
BackChoices(n) ==
    {a \in {<<n - 34, n>>, <<n - 39, n - 5>>} : a[1] >= 0}

\* the lists without repetition of at most k elements of S
ListsOf(S, k) ==
    UNION {{l \in [1..m -> S] : \A i, j \in 1..m : i # j => l[i] # l[j]} : m \in 0..k}

\* what get_valid_alignments may return for PRIMERS and PRIMERS_RC
AlignmentOracle(n) ==
    {o \in [va : [front : ListsOf(FrontChoices(n), MaxAlign),
                  back : ListsOf(BackChoices(n), MaxAlign)],
            va_rc : [front : ListsOf(FrontChoices(n), MaxAlign),
                     back : ListsOf(BackChoices(n), MaxAlign)]] :
        Len(o.va.front) + Len(o.va.back) + Len(o.va_rc.front) + Len(o.va_rc.back)
            <= MaxAlign}

\* A reference entry with the scores the aligner gives the candidate against
\* it: an empty line, or an entry of LIB_LENGTH bases whose index score is just
\* under or just over 34.8 and whose full score is just under or at 406.
DataSetEntries ==
    {[len |-> 0, idx_score |-> 0, seq_score |-> 0]}
    \cup [len : {LIB_LENGTH}, idx_score : {34, 35}, seq_score : {405, 406}]

DataSetsUpTo(k) == UNION {[1..m -> DataSetEntries] : m \in 0..k}

\* the locator is given a reference set of at most one entry
LocatorDataSets == DataSetsUpTo(1)

\* ---------------------------------------------------------------- actions

EmptyAlignments == [front |-> <<>>, back |-> <<>>]
NotValidated == [called |-> FALSE, res |-> "none", full_aligned |-> {}, scanned |-> 0]
NoPrev == [used |-> FALSE]

Mirror(l, n) == [i \in 1..Len(l) |-> <<n - l[i][2], n - l[i][1]>>]

ResetRead ==
    /\ valid_alignments' = EmptyAlignments
    /\ valid_alignments_rc' = EmptyAlignments
    /\ data_set' = <<>>
    /\ result' = "none"
    /\ extracted' = Tag(NoExtract, "none")
    /\ stages' = <<>>
    /\ aligner_called' = FALSE
    /\ validated' = NotValidated

\* process_file opens the output streams of its file and takes the first read
StartFile ==
    /\ pc = "idle"
    /\ \E r \in ReadInputs : sequence' = r
    /\ ResetRead
    /\ out_wo' = <<>>
    /\ out_with' = <<>>
    /\ prev' = NoPrev
    /\ pc' = "exact"
    /\ UNCHANGED <<MACHINE_LEARNING_MODE, DEBUG_MODE, streamVars, scores, pipeVars, tpeVars,
                   alignerVars>>

\* process_file takes the next read of the file: here the reverse complement
\* of a first read from which an insert was extracted in forward orientation
NextRead ==
    /\ pc = "done"
    /\ ~prev.used
    /\ extracted.found
    /\ extracted.attempt \in {"exact", "both", "front", "back"}
    /\ sequence' = copy_reverse_complement(sequence)
    /\ prev' = [used |-> TRUE, sequence |-> sequence, extracted |-> extracted,
                result |-> result, aligner_called |-> aligner_called,
                valid_alignments |-> valid_alignments,
                valid_alignments_rc |-> valid_alignments_rc,
                validated |-> validated, data_set |-> data_set]
    /\ ResetRead
    /\ pc' = "exact"
    /\ UNCHANGED <<MACHINE_LEARNING_MODE, DEBUG_MODE, streamVars, scores, out_wo, out_with,
                   pipeVars, tpeVars,
                   alignerVars>>

\* the write of an extracted insert to the two streams
\* the streams written in every mode
WritesOutput_always == TRUE

WritesOutput == ~MACHINE_LEARNING_MODE

Write(ex) ==
    /\ out_wo' = IF WritesOutput THEN Append(out_wo, ex.wo) ELSE out_wo
    /\ out_with' = IF WritesOutput THEN Append(out_with, ex.with) ELSE out_with

\* the validator asked only in parameter-search mode
ValidatesCandidate_learning_only == MACHINE_LEARNING_MODE

\* whether an alignment stage hands its candidate to the validator
ValidatesCandidate == MACHINE_LEARNING_MODE \/ DEBUG_MODE

\* the end of the three alignment helpers once a candidate is extracted:
\* write it, then return the validator's verdict or FOUND_VALID_MATCH
ReturnCandidate(ex) ==
    /\ Write(ex)
    /\ extracted' = ex
    /\ pc' = "done"
    /\ IF ValidatesCandidate
       THEN \E ds \in (IF prev.used /\ prev.validated.called
                       THEN {prev.data_set} ELSE LocatorDataSets) :
              LET v == compare_seq_to_dataset(compare_params(scores), ex.wo, ds)
              IN /\ data_set' = ds
                 /\ validated' = [called |-> TRUE, res |-> v.res,
                                  full_aligned |-> v.full_aligned,
                                  scanned |-> v.scanned]
                 /\ result' = v.res
       ELSE /\ result' = FOUND_VALID_MATCH
            /\ UNCHANGED <<data_set, validated>>

\* search_seq_and_write, first stage
SearchExact ==
    /\ pc = "exact"
    /\ LET ex == search_exact(sequence)
       IN /\ stages' = Append(stages, [stage |-> "exact", success |-> ex.found,
                                      tried |-> <<>>])
          /\ IF ex.found
             THEN /\ Write(ex)
                  /\ extracted' = ex
                  /\ result' = FOUND_VALID_MATCH
                  /\ pc' = "done"
             ELSE /\ pc' = "align"
                  /\ UNCHANGED <<out_wo, out_with, extracted, result>>
    /\ UNCHANGED <<MACHINE_LEARNING_MODE, DEBUG_MODE, streamVars, scores, sequence,
                   valid_alignments, valid_alignments_rc, data_set,
                   aligner_called, validated, prev, pipeVars, tpeVars,
                   alignerVars>>

\* search_seq_and_write: the two calls of get_valid_alignments.  The aligner
\* is an oracle; on the reverse complement of a read it has already aligned it
\* returns the mirrored alignments.
GetValidAlignments ==
    /\ pc = "align"
    /\ IF prev.used /\ prev.aligner_called
       THEN /\ valid_alignments' =
                 [front |-> Mirror(prev.valid_alignments_rc.back, Len(sequence)),
                  back |-> Mirror(prev.valid_alignments_rc.front, Len(sequence))]
            /\ valid_alignments_rc' =
                 [front |-> Mirror(prev.valid_alignments.back, Len(sequence)),
                  back |-> Mirror(prev.valid_alignments.front, Len(sequence))]
       ELSE \E o \in AlignmentOracle(Len(sequence)) :
               /\ valid_alignments' = o.va
               /\ valid_alignments_rc' = o.va_rc
    /\ aligner_called' = TRUE
    /\ pc' = "both"
    /\ UNCHANGED <<MACHINE_LEARNING_MODE, DEBUG_MODE, streamVars, scores, sequence, data_set,
                   result, extracted, stages, validated, out_wo, out_with, prev,
                   pipeVars, tpeVars,
                   alignerVars>>

\* the second stage without its return: the third stage runs after a success
SearchBothPrimers_no_return ==
    /\ pc = "both"
    /\ LET ex == search_both_primers(valid_alignments, valid_alignments_rc, sequence)
       IN /\ stages' = Append(stages, [stage |-> "both", success |-> ex.found,
                                      tried |-> <<>>])
          /\ pc' = "single"
          /\ UNCHANGED <<out_wo, out_with, extracted, result, data_set, validated>>
    /\ UNCHANGED <<MACHINE_LEARNING_MODE, DEBUG_MODE, streamVars, scores, sequence,
                   valid_alignments, valid_alignments_rc, aligner_called, prev,
                   pipeVars, tpeVars,
                   alignerVars>>

\* search_seq_and_write, second stage
SearchBothPrimers ==
    /\ pc = "both"
    /\ LET ex == search_both_primers(valid_alignments, valid_alignments_rc, sequence)
       IN /\ stages' = Append(stages, [stage |-> "both", success |-> ex.found,
                                      tried |-> <<>>])
          /\ IF ex.found
             THEN ReturnCandidate(ex)
             ELSE /\ pc' = "single"
                  /\ UNCHANGED <<out_wo, out_with, extracted, result, data_set,
                                 validated>>
    /\ UNCHANGED <<MACHINE_LEARNING_MODE, DEBUG_MODE, streamVars, scores, sequence,
                   valid_alignments, valid_alignments_rc, aligner_called, prev,
                   pipeVars, tpeVars,
                   alignerVars>>

\* search_seq_and_write, third stage and the final return
SearchSinglePrimer ==
    /\ pc = "single"
    /\ LET ex == search_single_primer(valid_alignments, valid_alignments_rc, sequence)
       IN /\ stages' = Append(stages, [stage |-> "single", success |-> ex.found,
                tried |-> single_primer_tried(valid_alignments,
                                              valid_alignments_rc, sequence)])
          /\ IF ex.found
             THEN ReturnCandidate(ex)
             ELSE /\ pc' = "done"
                  /\ result' = NO_MATCH_FOUND
                  /\ UNCHANGED <<out_wo, out_with, extracted, data_set, validated>>
    /\ UNCHANGED <<MACHINE_LEARNING_MODE, DEBUG_MODE, streamVars, scores, sequence,
                   valid_alignments, valid_alignments_rc, aligner_called, prev,
                   pipeVars, tpeVars,
                   alignerVars>>

\* ------------------------------------------------- the run over the corpus

\* config.py: the number of evaluations fmin is given
EVAL_NUM == 50
\* main_sequence_filtering.py: the loss of a Statistics not yet scored
INVALID_FIELD == -1

\* at most this many .fastq files in the input directory
MaxFiles == 2
\* at most this many evaluations are followed
MaxEvals == 2

\* A percentage or a loss is the exact fraction num/den, den > 0.
Rat(n, d) == [num |-> n, den |-> d]
RatLess(a, b) == a.num * b.den < b.num * a.den
RatEq(a, b) == a.num * b.den = b.num * a.den

\* Statistics.__init__
Statistics ==
    [seq_count |-> 0, filtered_out_count |-> 0, valid_seq_count |-> 0,
     invalid_seq_count |-> 0, percent_filtered |-> Rat(0, 1),
     loss |-> Rat(INVALID_FIELD, 1)]

Min(a, b) == IF a <= b THEN a ELSE b
Max(a, b) == IF a >= b THEN a ELSE b
Abs(a) == IF a >= 0 THEN a ELSE -a

\* a single primer's window tried also when both primers occur out of tolerance
naive_search_and_write_seq_with_fallback(seq, front_primer, back_primer) ==
    LET front_index == find(seq, front_primer)
        back_index == find(seq, back_primer)
    IN \/ /\ front_index # -1 /\ back_index # -1
          /\ Abs(Len(Slice(seq, front_index + Len(front_primer), back_index))
                 - LIB_LENGTH) <= 5
       \/ /\ front_index # -1
          /\ Abs(Len(Slice(seq, front_index + Len(front_primer),
                           Min(Len(seq), front_index + Len(front_primer) + LIB_LENGTH)))
                 - LIB_LENGTH) <= 5
       \/ /\ back_index # -1
          /\ Abs(Len(Slice(seq, Max(0, back_index - LIB_LENGTH), back_index))
                 - LIB_LENGTH) <= 5

naive_search_and_write_seq(seq, front_primer, back_primer) ==
    LET front_index == find(seq, front_primer)
        back_index == find(seq, back_primer)
    IN IF front_index # -1 /\ back_index # -1
       THEN Abs(Len(Slice(seq, front_index + Len(front_primer), back_index))
                - LIB_LENGTH) <= 5
       ELSE IF front_index # -1
       THEN Abs(Len(Slice(seq, front_index + Len(front_primer),
                          Min(Len(seq), front_index + Len(front_primer) + LIB_LENGTH)))
                - LIB_LENGTH) <= 5
       ELSE IF back_index # -1
       THEN Abs(Len(Slice(seq, Max(0, back_index - LIB_LENGTH), back_index))
                - LIB_LENGTH) <= 5
       ELSE FALSE

\* The reads of the corpus: both primers exact around 107 bases and around
\* 140 bases, the front primer alone, and no primer.
ExactRead == BothRead(0, 107)
PairRead == BothRead(0, 140)
FrontRead == FRONT_PRIMER \o Fill(141)
NoPrimerRead == Fill(50)

\* The files a corpus is made of: a file is the set of its distinct reads
\* (read_FASTQ_file returns them as the keys of a dictionary).
FileInputs == {{}, {NoPrimerRead}, {ExactRead, PairRead}, {FrontRead}}

CorpusInputs == UNION {[1..n -> FileInputs] : n \in 0..MaxFiles}

\* The reads given to the naive baseline: both primers around a gap in and
\* out of tolerance, in both orientations, in the wrong order and with a
\* second front primer before the pair; one primer alone with just enough and
\* just too few bases beside it; no primer.
NaiveReads ==
    {BothRead(0, LIB_LENGTH), BothRead(0, LIB_LENGTH - 5), BothRead(0, LIB_LENGTH + 5),
     BothRead(0, LIB_LENGTH - 6), BothRead(0, LIB_LENGTH + 6), BothRead(0, 107),
     BothRead(40, LIB_LENGTH),
     copy_reverse_complement(BothRead(0, LIB_LENGTH)),
     copy_reverse_complement(BothRead(0, LIB_LENGTH + 6)),
     BACK_PRIMER \o Fill(LIB_LENGTH) \o FRONT_PRIMER,
     FRONT_PRIMER \o Fill(10) \o BothRead(0, LIB_LENGTH),
     FRONT_PRIMER \o Fill(LIB_LENGTH - 5), FRONT_PRIMER \o Fill(LIB_LENGTH - 6),
     Fill(LIB_LENGTH - 5) \o BACK_PRIMER, Fill(LIB_LENGTH - 6) \o BACK_PRIMER,
     copy_reverse_complement(FRONT_PRIMER \o Fill(LIB_LENGTH - 5)),
     NoPrimerRead}

\* the files given to the naive baseline: each read alone, the empty file and
\* a file of two reads
NaiveFileInputs ==
    {{r} : r \in NaiveReads}
        \cup {{}, {BothRead(0, 107), FRONT_PRIMER \o Fill(LIB_LENGTH - 5)}}

NaiveCorpusInputs == UNION {[1..n -> NaiveFileInputs] : n \in 0..MaxFiles}

\* <<count_filtered, len(sequences)>> of one file
naive_filtering_of_file(file) ==
    <<Cardinality({r \in file :
          /\ ~naive_search_and_write_seq(r, PRIMERS.front, PRIMERS.back)
          /\ ~naive_search_and_write_seq(r, PRIMERS_RC.front, PRIMERS_RC.back)}),
      Cardinality(file)>>

\* naive_filtering_of_file on each file a corpus is made of
naive_filtering_of ==
    [file \in FileInputs \cup NaiveFileInputs |-> naive_filtering_of_file(file)]

\* the loop of naive_filtering_percent_of_dir over the first n files:
\* <<total_filtered, total_sequences>>
RECURSIVE NaiveTotals(_, _)
NaiveTotals(files, n) ==
    IF n = 0 THEN <<0, 0>>
    ELSE LET rest == NaiveTotals(files, n - 1)
             one == naive_filtering_of[files[n]]
         IN <<rest[1] + one[1], rest[2] + one[2]>>

\* What the alignment stages give for a read the exact stage missed, under
\* the scores of the evaluation (the aligner is an oracle): the verdict on the
\* candidate they extract, or NO_MATCH_FOUND when they extract none.
AlignmentOutcome(seq, sc) ==
    IF seq = PairRead
    THEN (IF sc.mismatch_score = -3 THEN FOUND_VALID_MATCH ELSE FOUND_INVALID_MATCH)
    ELSE IF seq = FrontRead
    THEN (IF sc.mismatch_score = -3 THEN FOUND_INVALID_MATCH ELSE NO_MATCH_FOUND)
    ELSE NO_MATCH_FOUND

\* search_seq_and_write as process_file sees it: the result for the read, and
\* whether compare_seq_to_dataset was called (it opens the data set file)
\* the exact stage on each read of the corpus
search_exact_of == [r \in UNION FileInputs |-> search_exact(r)]

search_seq_and_write(seq, sc) ==
    IF search_exact_of[seq].found
    THEN [res |-> FOUND_VALID_MATCH, reads_data_set |-> FALSE]
    ELSE LET o == AlignmentOutcome(seq, sc)
         IN IF o = NO_MATCH_FOUND
            THEN [res |-> NO_MATCH_FOUND, reads_data_set |-> FALSE]
            ELSE IF ValidatesCandidate
            THEN [res |-> o, reads_data_set |-> TRUE]
            ELSE [res |-> FOUND_VALID_MATCH, reads_data_set |-> FALSE]

\* an invalid match counted as a valid one as well
process_file_invalid_counted_twice(file, sc) ==
    LET res(r) == search_seq_and_write(r, sc)
        count(x) == Cardinality({r \in file : res(r).res = x})
        seq_count == Cardinality(file)
    IN IF \E r \in file : res(r).reads_data_set /\ ~data_set_readable
       THEN [state |-> "finished", raised |-> TRUE, stats |-> Statistics]
       ELSE [state |-> "finished", raised |-> FALSE,
             stats |->
               IF MACHINE_LEARNING_MODE
               THEN [seq_count |-> seq_count,
                     filtered_out_count |-> count(NO_MATCH_FOUND),
                     valid_seq_count |-> seq_count - count(NO_MATCH_FOUND),
                     invalid_seq_count |-> count(FOUND_INVALID_MATCH),
                     percent_filtered |->
                         IF seq_count # 0
                         THEN Rat(count(NO_MATCH_FOUND) * 100, seq_count)
                         ELSE Rat(0, 1),
                     loss |-> Rat(INVALID_FIELD, 1)]
               ELSE Statistics]

\* process_file: the Statistics of the file, or the exception of the worker
\* (the data set file cannot be opened when a candidate is to be validated)
process_file(file, sc) ==
    LET res(r) == search_seq_and_write(r, sc)
        count(x) == Cardinality({r \in file : res(r).res = x})
        seq_count == Cardinality(file)
    IN IF \E r \in file : res(r).reads_data_set /\ ~data_set_readable
       THEN [state |-> "finished", raised |-> TRUE, stats |-> Statistics]
       ELSE [state |-> "finished", raised |-> FALSE,
             stats |->
               IF MACHINE_LEARNING_MODE
               THEN [seq_count |-> seq_count,
                     filtered_out_count |-> count(NO_MATCH_FOUND),
                     valid_seq_count |-> count(FOUND_VALID_MATCH),
                     invalid_seq_count |-> count(FOUND_INVALID_MATCH),
                     percent_filtered |->
                         IF seq_count # 0
                         THEN Rat(count(NO_MATCH_FOUND) * 100, seq_count)
                         ELSE Rat(0, 1),
                     loss |-> Rat(INVALID_FIELD, 1)]
               ELSE Statistics]

Pending == [state |-> "pending", raised |-> FALSE, stats |-> Statistics]

\* the aggregate percentage as the sum of the files' percentages
AddFileStats_percent_sum(es, fs) ==
    [seq_count |-> es.seq_count + fs.seq_count,
     filtered_out_count |-> es.filtered_out_count + fs.filtered_out_count,
     valid_seq_count |-> es.valid_seq_count + fs.valid_seq_count,
     invalid_seq_count |-> es.invalid_seq_count + fs.invalid_seq_count,
     percent_filtered |->
         Rat(es.percent_filtered.num * fs.percent_filtered.den
                 + fs.percent_filtered.num * es.percent_filtered.den,
             es.percent_filtered.den * fs.percent_filtered.den),
     loss |-> es.loss]

\* the aggregate keeps the last file's counters instead of their sum
AddFileStats_overwrite(es, fs) ==
    LET seq_count == fs.seq_count
        filtered_out_count == fs.filtered_out_count
    IN [seq_count |-> seq_count,
        filtered_out_count |-> filtered_out_count,
        valid_seq_count |-> fs.valid_seq_count,
        invalid_seq_count |-> fs.invalid_seq_count,
        percent_filtered |-> IF seq_count # 0
                             THEN Rat(filtered_out_count * 100, seq_count)
                             ELSE es.percent_filtered,
        loss |-> es.loss]

\* run_filtering: one completed file added to the aggregate
AddFileStats(es, fs) ==
    LET seq_count == es.seq_count + fs.seq_count
        filtered_out_count == es.filtered_out_count + fs.filtered_out_count
    IN [seq_count |-> seq_count,
        filtered_out_count |-> filtered_out_count,
        valid_seq_count |-> es.valid_seq_count + fs.valid_seq_count,
        invalid_seq_count |-> es.invalid_seq_count + fs.invalid_seq_count,
        percent_filtered |-> IF seq_count # 0
                             THEN Rat(filtered_out_count * 100, seq_count)
                             ELSE es.percent_filtered,
        loss |-> es.loss]

\* the penalty also when the two percentages are equal
score_comparison_penalise_equal(naive, es) ==
    LET penalty == IF ~RatLess(es.percent_filtered, naive) THEN 100 ELSE 0
    IN IF es.seq_count > 0
       THEN [raised |-> FALSE,
             score |-> Rat(penalty * es.seq_count + es.invalid_seq_count * 100,
                           es.seq_count)]
       ELSE [raised |-> TRUE, score |-> Rat(penalty, 1)]

\* a penalty of 50 instead of 100
score_comparison_half_penalty(naive, es) ==
    LET penalty == IF RatLess(naive, es.percent_filtered) THEN 50 ELSE 0
    IN IF es.seq_count > 0
       THEN [raised |-> FALSE,
             score |-> Rat(penalty * es.seq_count + es.invalid_seq_count * 100,
                           es.seq_count)]
       ELSE [raised |-> TRUE, score |-> Rat(penalty, 1)]

\* score_comparison: the loss, or the failure of its assertion
score_comparison(naive, es) ==
    LET penalty == IF RatLess(naive, es.percent_filtered) THEN 100 ELSE 0
    IN IF es.seq_count > 0
       THEN [raised |-> FALSE,
             score |-> Rat(penalty * es.seq_count + es.invalid_seq_count * 100,
                           es.seq_count)]
       ELSE [raised |-> TRUE, score |-> Rat(penalty, 1)]

\* run_tpe has not returned: no parameters and no score
NoBest == [match_score |-> 0, mismatch_score |-> 0, open_gap_score |-> 0,
           extend_gap_score |-> 0]
NoBestScore == [num |-> INVALID_FIELD, den |-> 1]

\* fmin has not been called
TpeIdle ==
    /\ max_evals = EVAL_NUM
    /\ started = 0
    /\ best = NoBest
    /\ best_score = NoBestScore

\* no aligner has been configured
NoAligner == [mode |-> "none", match_score |-> 0, mismatch_score |-> 0,
              open_gap_score |-> 0, extend_gap_score |-> 0]

AlignerIdle ==
    /\ compare_aligner = NoAligner
    /\ min_score_calls = <<>>

PipelineIdle ==
    /\ corpus = <<>>
    /\ data_set_readable = TRUE
    /\ naive_percent_filtered = Rat(0, 1)
    /\ futures = <<>>
    /\ eval_stats = Statistics
    /\ file_stats_list = <<>>
    /\ trials = <<>>
    /\ TpeIdle
    /\ AlignerIdle

\* run_learning_algorithm: the naive baseline, computed once before fmin
NaiveFilteringPercentOfDir ==
    /\ pc = "main"
    /\ MACHINE_LEARNING_MODE
    /\ LET t == NaiveTotals(corpus, Len(corpus))
       IN IF t[2] > 0
          THEN /\ naive_percent_filtered' = Rat(t[1] * 100, t[2])
               /\ pc' = "fmin"
          ELSE /\ pc' = "aborted"
               /\ UNCHANGED naive_percent_filtered
    /\ UNCHANGED <<MACHINE_LEARNING_MODE, DEBUG_MODE, streamVars, scores, readVars, corpus,
                   data_set_readable, futures, eval_stats, file_stats_list, trials,
                   tpeVars, alignerVars>>

\* the head of run_filtering: a fresh aggregate and one future per file
SubmitFiles ==
    /\ futures' = [f \in 1..Len(corpus) |-> Pending]
    /\ eval_stats' = Statistics
    /\ file_stats_list' = <<>>
    /\ pc' = "filtering"

\* a proposal made while the evaluation before it is still filtering
Objective_overlapping ==
    /\ pc \in {"fmin", "filtering"}
    /\ Len(trials) < max_evals
    /\ Len(trials) < MaxEvals
    /\ started' = started + 1
    /\ \E p \in ScoresSpace : scores' = p
    /\ SubmitFiles
    /\ UNCHANGED <<MACHINE_LEARNING_MODE, DEBUG_MODE, streamVars, readVars, corpus,
                   data_set_readable, naive_percent_filtered, trials,
                   max_evals, best, best_score, alignerVars>>

\* a proposal made when the budget is already spent
Objective_past_budget ==
    /\ pc = "fmin"
    /\ Len(trials) <= max_evals
    /\ Len(trials) < MaxEvals
    /\ started' = started + 1
    /\ \E p \in ScoresSpace : scores' = p
    /\ SubmitFiles
    /\ UNCHANGED <<MACHINE_LEARNING_MODE, DEBUG_MODE, streamVars, readVars, corpus,
                   data_set_readable, naive_percent_filtered, trials,
                   max_evals, best, best_score, alignerVars>>

\* fmin proposes parameters and calls objective, which calls run_filtering
Objective ==
    /\ pc = "fmin"
    /\ Len(trials) < max_evals
    /\ Len(trials) < MaxEvals
    /\ started' = started + 1
    /\ \E p \in ScoresSpace : scores' = p
    /\ SubmitFiles
    /\ UNCHANGED <<MACHINE_LEARNING_MODE, DEBUG_MODE, streamVars, readVars, corpus,
                   data_set_readable, naive_percent_filtered, trials,
                   max_evals, best, best_score, alignerVars>>

\* main outside the parameter search: run_filtering with the default scores
MainRunFiltering ==
    /\ pc = "main"
    /\ ~MACHINE_LEARNING_MODE
    /\ SubmitFiles
    /\ UNCHANGED <<MACHINE_LEARNING_MODE, DEBUG_MODE, streamVars, scores, readVars, corpus,
                   data_set_readable, naive_percent_filtered, trials,
                   tpeVars, alignerVars>>

\* a worker of the pool runs process_file on its file to the end
WorkerRun(f) ==
    /\ pc = "filtering"
    /\ futures[f].state = "pending"
    /\ futures' = [futures EXCEPT ![f] = process_file(corpus[f], scores)]
    /\ UNCHANGED <<MACHINE_LEARNING_MODE, DEBUG_MODE, streamVars, scores, pc, readVars, corpus,
                   data_set_readable, naive_percent_filtered, eval_stats,
                   file_stats_list, trials,
                   tpeVars, alignerVars>>

\* run_filtering: one turn of the loop over as_completed(futures)
Collect(f) ==
    /\ pc = "filtering"
    /\ MACHINE_LEARNING_MODE
    /\ futures[f].state = "finished"
    /\ futures' = [futures EXCEPT ![f].state = "collected"]
    /\ IF futures[f].raised
       THEN UNCHANGED <<eval_stats, file_stats_list>>
       ELSE /\ file_stats_list' = Append(file_stats_list, f)
            /\ eval_stats' = AddFileStats(eval_stats, futures[f].stats)
    /\ UNCHANGED <<MACHINE_LEARNING_MODE, DEBUG_MODE, streamVars, scores, pc, readVars, corpus,
                   data_set_readable, naive_percent_filtered, trials,
                   tpeVars, alignerVars>>

\* run_filtering returns as soon as no finished worker waits to be collected
ReturnFiltering_early ==
    /\ pc = "filtering"
    /\ \A f \in 1..Len(corpus) : futures[f].state # "finished"
    /\ pc' = IF MACHINE_LEARNING_MODE THEN "objective" ELSE "done"
    /\ UNCHANGED <<MACHINE_LEARNING_MODE, DEBUG_MODE, streamVars, scores, readVars, pipeVars, tpeVars,
                   alignerVars>>

\* run_filtering returns once the pool has shut down
ReturnFiltering ==
    /\ pc = "filtering"
    /\ \A f \in 1..Len(corpus) :
          futures[f].state = (IF MACHINE_LEARNING_MODE THEN "collected" ELSE "finished")
    /\ pc' = IF MACHINE_LEARNING_MODE THEN "objective" ELSE "done"
    /\ UNCHANGED <<MACHINE_LEARNING_MODE, DEBUG_MODE, streamVars, scores, readVars, pipeVars, tpeVars,
                   alignerVars>>

\* objective after run_filtering: the loss, recorded by fmin as a trial; a
\* failed assertion leaves fmin and the run
ScoreComparison ==
    /\ pc = "objective"
    /\ LET loss == score_comparison(naive_percent_filtered, eval_stats)
       IN IF loss.raised
          THEN /\ pc' = "aborted"
               /\ UNCHANGED <<eval_stats, trials>>
          ELSE /\ eval_stats' = [eval_stats EXCEPT !.loss = loss.score]
               /\ trials' = Append(trials,
                     [params |-> scores,
                      eval_stats |-> [eval_stats EXCEPT !.loss = loss.score],
                      futures |-> futures])
               /\ pc' = "fmin"
    /\ UNCHANGED <<MACHINE_LEARNING_MODE, DEBUG_MODE, streamVars, scores, readVars, corpus,
                   data_set_readable, naive_percent_filtered, futures,
                   file_stats_list,
                   tpeVars, alignerVars>>

\* the losses of the recorded evaluations that no other loss is below
MinLossTrials(ts) ==
    {i \in 1..Len(ts) :
        \A j \in 1..Len(ts) : ~RatLess(ts[j].eval_stats.loss, ts[i].eval_stats.loss)}

\* the loss of the last evaluation instead of the minimum
min_loss_last(ts) == ts[Len(ts)].eval_stats.loss

\* run_tpe: min(trial['result']['loss'] for trial in trials.trials)
min_loss(ts) ==
    LET i == CHOOSE i \in MinLossTrials(ts) : TRUE
    IN ts[i].eval_stats.loss

\* fmin returns after max_evals evaluations with the parameters of a trial of
\* minimum loss; run_tpe returns them with the minimum loss
RunTpeReturn ==
    /\ pc = "fmin"
    /\ Len(trials) = max_evals
    /\ \E i \in MinLossTrials(trials) : best' = trials[i].params
    /\ best_score' = min_loss(trials)
    /\ pc' = "done"
    /\ UNCHANGED <<MACHINE_LEARNING_MODE, DEBUG_MODE, streamVars, scores, readVars, pipeVars,
                   max_evals, started, alignerVars>>

\* ------------------------------------------------- the output streams

\* at most this many entries in the input directory
MaxNames == 2

\* The names of the entries of the input directory: ordinary .fastq names,
\* names that begin with a period, and a name that is no .fastq file.
FileNames == {"a.fastq", "a.b.fastq", ".fastq", ".fastq.fastq", "a.txt"}

\* str.endswith
endswith(s, suffix) ==
    /\ Len(s) >= Len(suffix)
    /\ SubSeq(s, Len(s) - Len(suffix) + 1, Len(s)) = suffix

\* os.path.splitext(name)[0] for a name without directory: the name up to its
\* last period, or the whole name when only periods come before that period
splitext_root(name) ==
    LET dots == {i \in 1..Len(name) : SubSeq(name, i, i) = "."}
    IN IF dots = {} THEN name
       ELSE LET dotIndex == CHOOSE i \in dots : \A j \in dots : j <= i
            IN IF \E k \in 1..(dotIndex - 1) : SubSeq(name, k, k) # "."
               THEN SubSeq(name, 1, dotIndex - 1)
               ELSE name

\* process_file: the paths of the three streams of a file
output_with_primers_file_path(fastq_file) ==
    [dir |-> "output_with_primers_dir",
     file |-> splitext_root(fastq_file) \o "_with_primers.fastq"]
output_wo_primers_file_path(fastq_file) ==
    [dir |-> "output_wo_primers_dir",
     file |-> splitext_root(fastq_file) \o "_wo_primers.fastq"]
debug_path(fastq_file) ==
    [dir |-> "debug_dir", file |-> splitext_root(fastq_file) \o "_debug.txt"]

\* the paths process_file opens for writing
OpenedPaths(fastq_file) ==
    (IF ~MACHINE_LEARNING_MODE
     THEN {output_with_primers_file_path(fastq_file),
           output_wo_primers_file_path(fastq_file)}
     ELSE {})
    \cup (IF DEBUG_MODE THEN {debug_path(fastq_file)} ELSE {})

\* no pass over the input directory is running
StreamsIdle ==
    /\ input_dir = <<>>
    /\ workers = <<>>

IsFastq(name) == endswith(name, ".fastq")

\* run_filtering: one process_file submitted for every entry ending in .fastq
SubmitProcessFiles ==
    /\ pc = "listdir"
    /\ workers' = [w \in 1..Len(SelectSeq(input_dir, IsFastq)) |->
                      [fastq_file |-> SelectSeq(input_dir, IsFastq)[w],
                       state |-> "pending", open |-> {}]]
    /\ pc' = "pool"
    /\ UNCHANGED <<MACHINE_LEARNING_MODE, DEBUG_MODE, scores, readVars, pipeVars,
                   tpeVars, alignerVars, input_dir>>

\* process_file up to its loop over the reads: the streams are opened
OpenStreams(w) ==
    /\ pc = "pool"
    /\ workers[w].state = "pending"
    /\ workers' = [workers EXCEPT ![w].state = "running",
                                  ![w].open = OpenedPaths(workers[w].fastq_file)]
    /\ UNCHANGED <<MACHINE_LEARNING_MODE, DEBUG_MODE, scores, pc, readVars, pipeVars,
                   tpeVars, alignerVars, input_dir>>

\* process_file after its loop: the streams are closed and it returns
CloseStreams(w) ==
    /\ pc = "pool"
    /\ workers[w].state = "running"
    /\ workers' = [workers EXCEPT ![w].state = "finished", ![w].open = {}]
    /\ UNCHANGED <<MACHINE_LEARNING_MODE, DEBUG_MODE, scores, pc, readVars, pipeVars,
                   tpeVars, alignerVars, input_dir>>

\* no read is being classified
ReadIdle ==
    /\ sequence = ""
    /\ valid_alignments = EmptyAlignments
    /\ valid_alignments_rc = EmptyAlignments
    /\ data_set = <<>>
    /\ result = "none"
    /\ extracted = Tag(NoExtract, "none")
    /\ stages = <<>>
    /\ aligner_called = FALSE
    /\ validated = NotValidated
    /\ out_wo = <<>>
    /\ out_with = <<>>
    /\ prev = NoPrev

Init ==
    /\ StreamsIdle
    /\ MACHINE_LEARNING_MODE \in BOOLEAN
    /\ DEBUG_MODE \in BOOLEAN
    /\ scores = DefaultScores
    /\ pc = "idle"
    /\ ReadIdle
    /\ PipelineIdle

Next ==
    \/ StartFile
    \/ NextRead
    \/ SearchExact
    \/ GetValidAlignments
    \/ SearchBothPrimers
    \/ SearchSinglePrimer

Spec == Init /\ [][Next]_vars

\* The validator alone: a candidate insert of 135, 140 or 145 bases is
\* compared with a reference set under one of the scoring parameters.
CompareSeqToDataset ==
    /\ pc = "candidate"
    /\ \E ds \in DataSetsUpTo(MaxDataSet) :
          LET v == compare_seq_to_dataset(compare_params(scores), extracted.wo, ds)
          IN /\ data_set' = ds
             /\ validated' = [called |-> TRUE, res |-> v.res,
                              full_aligned |-> v.full_aligned,
                              scanned |-> v.scanned]
             /\ result' = v.res
    /\ pc' = "done"
    /\ UNCHANGED <<MACHINE_LEARNING_MODE, DEBUG_MODE, streamVars, scores, sequence,
                   valid_alignments, valid_alignments_rc, extracted, stages,
                   aligner_called, out_wo, out_with, prev, pipeVars, tpeVars,
                   alignerVars>>

InitValidator ==
    /\ StreamsIdle
    /\ MACHINE_LEARNING_MODE = TRUE
    /\ DEBUG_MODE = TRUE
    /\ scores \in ScoresSpace
    /\ pc = "candidate"
    /\ sequence = ""
    /\ valid_alignments = EmptyAlignments
    /\ valid_alignments_rc = EmptyAlignments
    /\ data_set = <<>>
    /\ result = "none"
    /\ \E n \in {LIB_LENGTH - 5, LIB_LENGTH, LIB_LENGTH + 5} :
          extracted = Tag([found |-> TRUE, wo |-> Fill(n), with |-> Fill(n),
                           is_reversed |-> FALSE], "both")
    /\ stages = <<>>
    /\ aligner_called = FALSE
    /\ validated = NotValidated
    /\ out_wo = <<>>
    /\ out_with = <<>>
    /\ prev = NoPrev
    /\ PipelineIdle

NextValidator == CompareSeqToDataset

SpecValidator == InitValidator /\ [][NextValidator]_vars

\* The run over a corpus: the naive baseline, then the evaluations of fmin,
\* each a parallel pass over the files; or one pass outside the search.
InitPipeline ==
    /\ StreamsIdle
    /\ MACHINE_LEARNING_MODE \in BOOLEAN
    /\ DEBUG_MODE \in BOOLEAN
    /\ scores = DefaultScores
    /\ pc = "main"
    /\ ReadIdle
    /\ corpus \in CorpusInputs
    /\ data_set_readable \in BOOLEAN
    /\ naive_percent_filtered = Rat(0, 1)
    /\ futures = <<>>
    /\ eval_stats = Statistics
    /\ file_stats_list = <<>>
    /\ trials = <<>>
    /\ TpeIdle
    /\ AlignerIdle

NextPipeline ==
    \/ NaiveFilteringPercentOfDir
    \/ Objective
    \/ MainRunFiltering
    \/ \E f \in 1..Len(corpus) : WorkerRun(f)
    \/ \E f \in 1..Len(corpus) : Collect(f)
    \/ ReturnFiltering
    \/ ScoreComparison

SpecPipeline == InitPipeline /\ [][NextPipeline]_vars

\* at most this many calls of the minimum score are followed
MaxCalls == 3

\* set_aligner_parameters, as run_filtering calls it: a fresh aligner with the
\* scores of the evaluation, and the minimum for a wanted percentage and length
SetAlignerParameters ==
    /\ pc = "aligner"
    /\ Len(min_score_calls) < MaxCalls
    /\ \E sc \in ScoresSpace, mode \in {"local", "global"}, pct \in {80, 85},
          length \in {INDEX_LEN, Len(FRONT_PRIMER)} :
          LET r == set_aligner_parameters(sc, mode, pct, length)
          IN /\ compare_aligner' = r.aligner
             /\ min_score_calls' = Append(min_score_calls,
                   [aligner |-> r.aligner, pct |-> pct, length |-> length,
                    min_valid_score |-> r.min_valid_score])
    /\ UNCHANGED <<MACHINE_LEARNING_MODE, DEBUG_MODE, streamVars, scores, pc, readVars, pipeVars,
                   tpeVars>>

\* percentage_to_min_score, as compare_seq_to_dataset calls it on the aligner
\* already configured, for the length of a candidate
PercentageToMinScore ==
    /\ pc = "aligner"
    /\ Len(min_score_calls) < MaxCalls
    /\ compare_aligner # NoAligner
    /\ \E length \in {LIB_LENGTH - 5, LIB_LENGTH, LIB_LENGTH + 5} :
          min_score_calls' = Append(min_score_calls,
              [aligner |-> compare_aligner, pct |-> 85, length |-> length,
               min_valid_score |->
                   percentage_to_min_score(compare_aligner, 85, length)])
    /\ UNCHANGED <<MACHINE_LEARNING_MODE, DEBUG_MODE, streamVars, scores, pc, readVars, pipeVars,
                   tpeVars, compare_aligner>>

\* The minimum score alone: a sequence of calls with scores, percentages and
\* lengths drawn from small sets.
InitMinScore ==
    /\ StreamsIdle
    /\ MACHINE_LEARNING_MODE = TRUE
    /\ DEBUG_MODE = TRUE
    /\ scores = DefaultScores
    /\ pc = "aligner"
    /\ ReadIdle
    /\ PipelineIdle

NextMinScore ==
    \/ SetAlignerParameters
    \/ PercentageToMinScore

SpecMinScore == InitMinScore /\ [][NextMinScore]_vars


\* The parameter search to its end: the budget given to fmin is small enough
\* to be followed to the last evaluation.
InitTpe ==
    /\ StreamsIdle
    /\ MACHINE_LEARNING_MODE = TRUE
    /\ DEBUG_MODE = TRUE
    /\ scores = DefaultScores
    /\ pc = "main"
    /\ ReadIdle
    /\ corpus \in CorpusInputs
    /\ data_set_readable \in BOOLEAN
    /\ naive_percent_filtered = Rat(0, 1)
    /\ futures = <<>>
    /\ eval_stats = Statistics
    /\ file_stats_list = <<>>
    /\ trials = <<>>
    /\ max_evals \in 1..MaxEvals
    /\ started = 0
    /\ best = NoBest
    /\ best_score = NoBestScore
    /\ AlignerIdle

NextTpe ==
    \/ NaiveFilteringPercentOfDir
    \/ Objective
    \/ \E f \in 1..Len(corpus) : WorkerRun(f)
    \/ \E f \in 1..Len(corpus) : Collect(f)
    \/ ReturnFiltering
    \/ ScoreComparison
    \/ RunTpeReturn

\* the main process runs on while it has a step to take, and the pool runs
\* the files submitted to it
SpecTpe ==
    /\ InitTpe
    /\ [][NextTpe]_vars
    /\ WF_vars(\/ NaiveFilteringPercentOfDir
               \/ Objective
               \/ \E f \in 1..Len(corpus) : Collect(f)
               \/ ReturnFiltering
               \/ ScoreComparison
               \/ RunTpeReturn)
    /\ WF_vars(\E f \in 1..Len(corpus) : WorkerRun(f))

\* One pass over an input directory of at most MaxNames entries: the workers
\* of the pool open and close the streams of their files in any interleaving.
InitStreams ==
    /\ MACHINE_LEARNING_MODE \in BOOLEAN
    /\ DEBUG_MODE \in BOOLEAN
    /\ scores = DefaultScores
    /\ pc = "listdir"
    /\ ReadIdle
    /\ PipelineIdle
    /\ input_dir \in ListsOf(FileNames, MaxNames)
    /\ workers = <<>>

NextStreams ==
    \/ SubmitProcessFiles
    \/ \E w \in 1..Len(workers) : OpenStreams(w)
    \/ \E w \in 1..Len(workers) : CloseStreams(w)

SpecStreams == InitStreams /\ [][NextStreams]_vars

\* The naive baseline alone, over a directory of at most MaxFiles files of the
\* reads given to it.
InitNaive ==
    /\ StreamsIdle
    /\ MACHINE_LEARNING_MODE = TRUE
    /\ DEBUG_MODE = TRUE
    /\ scores = DefaultScores
    /\ pc = "main"
    /\ ReadIdle
    /\ corpus \in NaiveCorpusInputs
    /\ data_set_readable = TRUE
    /\ naive_percent_filtered = Rat(0, 1)
    /\ futures = <<>>
    /\ eval_stats = Statistics
    /\ file_stats_list = <<>>
    /\ trials = <<>>
    /\ TpeIdle
    /\ AlignerIdle

NextNaive == NaiveFilteringPercentOfDir

SpecNaive == InitNaive /\ [][NextNaive]_vars

\* ------------------------------------------------------------------ claims

\* the 0-based positions at which sub occurs in s
Occurrences(s, sub) ==
    {i \in 0..(Len(s) - Len(sub)) : SubSeq(s, i + 1, i + Len(sub)) = sub}

\* s holds both primers exactly, front before back, the gap between the front
\* primer's end and the back primer's start within 5 of LIB_LENGTH
HasExactPair(s, primers) ==
    \E i \in Occurrences(s, primers.front) : \E j \in Occurrences(s, primers.back) :
        /\ LIB_LENGTH - 5 <= j - (i + Len(primers.front))
        /\ j - (i + Len(primers.front)) <= LIB_LENGTH + 5

AlignmentAttempts == {"both", "both_rc", "front", "front_rc", "back", "back_rc"}

\* C1: a read holding both primers exactly (or the reverse-complement pair),
\* front before back with a gap within 5 of LIB_LENGTH, is classified
\* FOUND_VALID_MATCH by the exact-match stage, with no alignment computed and
\* the reference data set not consulted.
C1_ExactPairTakesFastPath ==
    (pc = "done" /\ (HasExactPair(sequence, PRIMERS) \/ HasExactPair(sequence, PRIMERS_RC)))
        => /\ result = FOUND_VALID_MATCH
           /\ extracted.attempt \in {"exact", "exact_rc"}
           /\ ~aligner_called
           /\ ~validated.called

StageOrder == <<"exact", "both", "single">>

\* C2: the stages are tried in the order exact, both primers, single primer;
\* no stage is tried after one that succeeded; the read's result is one of the
\* three MatchResult values, and it is NO_MATCH_FOUND exactly when all three
\* stages were tried and failed.
C2_StagesInOrderFirstSuccessWins ==
    /\ Len(stages) <= 3
    /\ \A i \in 1..Len(stages) : stages[i].stage = StageOrder[i]
    /\ \A i \in 1..(Len(stages) - 1) : ~stages[i].success
    /\ pc = "done" =>
          /\ result \in MatchResult
          /\ result = NO_MATCH_FOUND <=>
                (Len(stages) = 3 /\ \A i \in 1..3 : ~stages[i].success)
          /\ result # NO_MATCH_FOUND => stages[Len(stages)].success

C2_Witness ==
    /\ pc = "done"
    /\ Len(stages) = 2
    /\ stages[2].success
    /\ result = FOUND_INVALID_MATCH

\* a reference entry that passes both tiers for the candidate
Qualifies(e, cand, sc) ==
    /\ e.len # 0
    /\ e.idx_score * 300 >= percentage_to_min_score(sc, 85, INDEX_LEN)
    /\ e.seq_score * 300 >= percentage_to_min_score(sc, 85, Len(cand))

\* C3: the validator returns FOUND_VALID_MATCH exactly when some non-empty
\* reference entry has an index score at or above the index minimum and a full
\* score at or above the minimum for 0.85 and the candidate's length; an entry
\* under the index minimum is never fully aligned; FOUND_INVALID_MATCH is
\* returned only after the whole set was scanned; NO_MATCH_FOUND is never
\* returned.
C3_ValidatorVerdict ==
    validated.called =>
        /\ validated.res \in {FOUND_VALID_MATCH, FOUND_INVALID_MATCH}
        /\ validated.res = FOUND_VALID_MATCH <=>
              \E i \in 1..Len(data_set) : Qualifies(data_set[i], extracted.wo, scores)
        /\ \A i \in validated.full_aligned :
              /\ data_set[i].len # 0
              /\ data_set[i].idx_score * 300
                    >= percentage_to_min_score(scores, 85, INDEX_LEN)
        /\ validated.res = FOUND_INVALID_MATCH => validated.scanned = Len(data_set)

C3_Witness ==
    /\ validated.called
    /\ Len(data_set) = 2
    /\ data_set[1].len # 0
    /\ ~Qualifies(data_set[1], extracted.wo, scores)
    /\ data_set[1].seq_score * 300 >= percentage_to_min_score(scores, 85, Len(extracted.wo))
    /\ Qualifies(data_set[2], extracted.wo, scores)
    /\ validated.res = FOUND_VALID_MATCH
    /\ validated.full_aligned = {2}

\* C4 as claimed: whenever an alignment stage extracts a candidate, the
\* validator is called and the read's result is its verdict, in every mode.
C4_AlwaysValidatorVerdict ==
    (pc = "done" /\ extracted.attempt \in AlignmentAttempts)
        => (validated.called /\ result = validated.res)

\* C4 amended: when an alignment stage extracts a candidate, the read's result
\* is the validator's verdict on that candidate if MACHINE_LEARNING_MODE or
\* DEBUG_MODE is set; with both unset the validator is not called and the
\* result is FOUND_VALID_MATCH.
C4_ValidatorVerdictWhenModeAsks ==
    (pc = "done" /\ extracted.attempt \in AlignmentAttempts) =>
        IF MACHINE_LEARNING_MODE \/ DEBUG_MODE
        THEN /\ validated.called
             /\ result \in {FOUND_VALID_MATCH, FOUND_INVALID_MATCH}
             /\ result = FOUND_VALID_MATCH <=>
                   \E i \in 1..Len(data_set) :
                       Qualifies(data_set[i], extracted.wo, scores)
        ELSE ~validated.called /\ result = FOUND_VALID_MATCH

C4_Witness ==
    /\ pc = "done"
    /\ extracted.attempt = "front_rc"
    /\ ~MACHINE_LEARNING_MODE
    /\ DEBUG_MODE
    /\ Len(data_set) = 1
    /\ result = FOUND_INVALID_MATCH

\* C5: every loss recorded for an evaluation (whose aggregate has seq_count > 0)
\* is (invalid_seq_count / seq_count) * 100, plus 100 exactly when the
\* evaluation's percent_filtered is strictly greater than the naive
\* percent_filtered; equal percentages add nothing.
C5_LossIsInvalidShareWithStrictPenalty ==
    \A i \in 1..Len(trials) :
        LET es == trials[i].eval_stats
            naive == naive_percent_filtered
            over == es.percent_filtered.num * naive.den
                        > naive.num * es.percent_filtered.den
            expected == es.invalid_seq_count * 100
                            + (IF over THEN 100 ELSE 0) * es.seq_count
        IN /\ es.seq_count > 0
           /\ es.loss.den > 0
           /\ es.loss.num * es.seq_count = expected * es.loss.den

C5_Witness ==
    /\ Len(trials) = 2
    /\ RatEq(trials[1].eval_stats.percent_filtered, naive_percent_filtered)
    /\ trials[1].eval_stats.invalid_seq_count = 1
    /\ trials[1].eval_stats.loss = Rat(100, 1)
    /\ RatLess(naive_percent_filtered, trials[2].eval_stats.percent_filtered)
    /\ trials[2].eval_stats.invalid_seq_count = 0
    /\ trials[2].eval_stats.loss = Rat(100, 1)

\* no file of the corpus holds a read
CorpusEmpty == \A f \in 1..Len(corpus) : corpus[f] = {}

\* C6: no loss is recorded for an aggregate of zero sequences, the naive
\* baseline does not return for a corpus of zero sequences, and the run is
\* aborted by a hard failure only when the corpus holds zero sequences.
C6_OnlyEmptyCorpusIsFatal ==
    /\ \A i \in 1..Len(trials) : trials[i].eval_stats.seq_count > 0
    /\ pc \in {"fmin", "filtering", "objective"} /\ MACHINE_LEARNING_MODE
          => ~CorpusEmpty
    /\ pc = "aborted" => CorpusEmpty

\* the files whose worker returned a Statistics
CompletedFiles ==
    {f \in 1..Len(futures) : futures[f].state # "pending" /\ ~futures[f].raised}

\* the sum of a counter over the Statistics the workers of S returned
RECURSIVE SumField(_, _)
SumField(S, field) ==
    IF S = {} THEN 0
    ELSE LET f == CHOOSE x \in S : TRUE
         IN futures[f].stats[field] + SumField(S \ {f}, field)

\* the aggregate is the sum of the Statistics of the completed files
AggregateIsSum ==
    /\ \A field \in {"seq_count", "filtered_out_count", "valid_seq_count",
                     "invalid_seq_count"} :
          eval_stats[field] = SumField(CompletedFiles, field)
    /\ IF eval_stats.seq_count > 0
       THEN RatEq(eval_stats.percent_filtered,
                  Rat(eval_stats.filtered_out_count * 100, eval_stats.seq_count))
       ELSE RatEq(eval_stats.percent_filtered, Rat(0, 1))

\* C7: when run_filtering returns, its aggregate counters are the sums of the
\* counters of the Statistics of the files that completed, whatever the order
\* in which the workers finished and were collected; and an earlier pass over
\* the same corpus with the same parameters gave the same seq_count,
\* filtered_out_count, valid_seq_count, invalid_seq_count and percent_filtered.
C7_AggregateIsOrderFreeSum ==
    pc \in {"objective", "done"} =>
        /\ AggregateIsSum
        /\ \A i \in 1..Len(trials) :
              trials[i].params = scores =>
                  /\ trials[i].eval_stats.seq_count = eval_stats.seq_count
                  /\ trials[i].eval_stats.filtered_out_count
                        = eval_stats.filtered_out_count
                  /\ trials[i].eval_stats.valid_seq_count = eval_stats.valid_seq_count
                  /\ trials[i].eval_stats.invalid_seq_count
                        = eval_stats.invalid_seq_count
                  /\ RatEq(trials[i].eval_stats.percent_filtered,
                           eval_stats.percent_filtered)

C7_Witness ==
    /\ pc = "objective"
    /\ file_stats_list = <<2, 1>>
    /\ futures[1].stats.seq_count = 2
    /\ futures[2].stats.seq_count = 1
    /\ eval_stats.seq_count = 3
    /\ Len(trials) = 1
    /\ trials[1].params = scores
    /\ trials[1].eval_stats.seq_count = 3

\* C8: when a worker raised in a pass of the parameter search, every future is
\* collected, the aggregate is the sum over the files that did not raise, and
\* the evaluation is not aborted.
C8_WorkerFailureIsSoft ==
    (/\ MACHINE_LEARNING_MODE
     /\ pc \in {"objective", "fmin", "aborted"}
     /\ \E f \in 1..Len(futures) : futures[f].raised) =>
        /\ \A f \in 1..Len(futures) : futures[f].state = "collected"
        /\ \A field \in {"seq_count", "filtered_out_count", "valid_seq_count",
                         "invalid_seq_count"} :
              eval_stats[field] = SumField(CompletedFiles, field)
        /\ pc # "aborted"

\* the first alignment of the list whose window of LIB_LENGTH bases after it
\* lies inside a read of n bases, or 0
FirstFittingFront(vaf, n) ==
    IF \E i \in 1..Len(vaf) : vaf[i][2] + LIB_LENGTH <= n
    THEN CHOOSE i \in 1..Len(vaf) :
            /\ vaf[i][2] + LIB_LENGTH <= n
            /\ \A j \in 1..(i - 1) : vaf[j][2] + LIB_LENGTH > n
    ELSE 0

\* C9: in the front-primer-only search (forward), an alignment is rejected
\* exactly when front_end + LIB_LENGTH > len(read); the first alignment not
\* rejected gives the candidate read[front_end : front_end + LIB_LENGTH], so
\* a window ending exactly at the read's end is accepted.
C9_FrontWindowRejectedOnlyPastEnd ==
    Len(stages) = 3 =>
        LET k == FirstFittingFront(valid_alignments.front, Len(sequence))
        IN IF k = 0 THEN extracted.attempt # "front"
           ELSE /\ extracted.attempt = "front"
                /\ extracted.wo =
                      SubSeq(sequence, valid_alignments.front[k][2] + 1,
                             valid_alignments.front[k][2] + LIB_LENGTH)

\* C10: when an insert was extracted from a read in forward orientation,
\* classifying the read's reverse complement extracts, through the
\* reverse-complement primers, the same insert.
C10_ReverseComplementGivesSameInsert ==
    (pc = "done" /\ prev.used) =>
        /\ extracted.found
        /\ extracted.attempt \in {"exact_rc", "both_rc", "front_rc", "back_rc"}
        /\ extracted.wo = prev.extracted.wo

\* the inputs of a recorded call of the minimum score
SameInputs(c, d) ==
    /\ c.aligner.match_score = d.aligner.match_score
    /\ c.aligner.mismatch_score = d.aligner.mismatch_score
    /\ c.aligner.open_gap_score = d.aligner.open_gap_score
    /\ c.aligner.extend_gap_score = d.aligner.extend_gap_score
    /\ c.pct = d.pct
    /\ c.length = d.length

InRange(r) == r.den > 0 /\ 0 <= r.num /\ r.num <= 100 * r.den

\* a Statistics whose percent_filtered is in range, and 0 without sequences
PercentOk(st) ==
    /\ InRange(st.percent_filtered)
    /\ st.seq_count = 0 => st.percent_filtered.num = 0

\* C12: the naive percentage, the percent_filtered of every file's Statistics
\* and the aggregate percent_filtered after every aggregation step lie in
\* [0, 100], and percent_filtered is 0 whenever seq_count is 0.
C12_PercentagesInRange ==
    /\ InRange(naive_percent_filtered)
    /\ \A f \in 1..Len(futures) : PercentOk(futures[f].stats)
    /\ PercentOk(eval_stats)
    /\ \A i \in 1..Len(trials) : PercentOk(trials[i].eval_stats)

C12_Witness ==
    /\ pc = "filtering"
    /\ naive_percent_filtered = Rat(0, 1)
    /\ file_stats_list = <<1>>
    /\ futures[1].stats.seq_count = 0
    /\ eval_stats.seq_count = 0
    /\ eval_stats.percent_filtered.num = 0
    /\ futures[2].state = "finished"
    /\ ~futures[2].raised
    /\ futures[2].stats.percent_filtered = Rat(100, 1)

\* C13: at most one evaluation is in progress at any time: every call of
\* objective but the last has reported its result to fmin before the next
\* proposal is made, and while a pass is filtering or being scored it belongs
\* to the one evaluation not yet reported.
C13_TrialsStrictlySequential ==
    /\ started - Len(trials) \in {0, 1}
    /\ started > Len(trials) => pc \in {"filtering", "objective", "aborted"}
    /\ (MACHINE_LEARNING_MODE /\ pc \in {"filtering", "objective"})
          => started = Len(trials) + 1
    /\ pc = "fmin" => /\ started = Len(trials)
                      /\ \A f \in 1..Len(futures) : futures[f].state = "collected"

C13_Witness ==
    /\ pc = "filtering"
    /\ started = 2
    /\ Len(trials) = 1
    /\ Len(futures) = 2
    /\ futures[1].state = "pending"
    /\ futures[2].state = "collected"

\* C14: the parameter search eventually ends, by the return of run_tpe or by
\* the fatal failure of an evaluation; it never begins more evaluations than
\* the budget, and when run_tpe returns exactly the budgeted number of
\* evaluations have been begun and recorded.
C14_ExactlyTheBudget ==
    /\ <>(pc \in {"done", "aborted"})
    /\ [](started <= max_evals /\ Len(trials) <= max_evals)
    /\ [](pc = "done" => (started = max_evals /\ Len(trials) = max_evals))

C14_Witness ==
    /\ pc = "done"
    /\ max_evals = 2
    /\ started = 2
    /\ Len(trials) = 2

\* C15: when run_tpe returns, its score is a loss of the history that no loss
\* of the history is below, and the parameters it returns are those of a trial
\* whose loss is that score.
C15_BestIsMinimumLoss ==
    pc = "done" =>
        /\ \A i \in 1..Len(trials) : ~RatLess(trials[i].eval_stats.loss, best_score)
        /\ \E i \in 1..Len(trials) :
              /\ RatEq(trials[i].eval_stats.loss, best_score)
              /\ trials[i].params = best

C15_Witness ==
    /\ pc = "done"
    /\ Len(trials) = 2
    /\ RatLess(trials[2].eval_stats.loss, trials[1].eval_stats.loss)
    /\ best = trials[2].params
    /\ best # trials[1].params
    /\ best_score = trials[2].eval_stats.loss

\* the reads of the file classified so far as a match, valid or invalid
ClassifiedAsMatch ==
    (IF prev.used /\ prev.result # NO_MATCH_FOUND THEN 1 ELSE 0)
        + (IF pc = "done" /\ result # NO_MATCH_FOUND THEN 1 ELSE 0)

\* C16: in parameter-search mode the two output streams stay empty; outside
\* it each stream holds exactly one line for every read classified so far as
\* FOUND_VALID_MATCH or FOUND_INVALID_MATCH and none for a read classified
\* NO_MATCH_FOUND or still being classified.
C16_OneLinePerMatchOutsideSearchMode ==
    /\ Len(out_wo) = Len(out_with)
    /\ Len(out_wo) = IF MACHINE_LEARNING_MODE THEN 0 ELSE ClassifiedAsMatch

C16_Witness ==
    /\ ~MACHINE_LEARNING_MODE
    /\ pc = "done"
    /\ prev.used
    /\ result = NO_MATCH_FOUND
    /\ Len(out_wo) = 1
    /\ Len(out_with) = 1

\* C17: the exact-match stage succeeds on a read only if the read holds both
\* primers of the orientation matched, the front one wholly before the back
\* one, with between LIB_LENGTH - 5 and LIB_LENGTH + 5 bases from the front
\* primer's end to the back primer's start.
C17_ExactAcceptsOnlyGapInWindow ==
    /\ extracted.attempt = "exact" => HasExactPair(sequence, PRIMERS)
    /\ extracted.attempt = "exact_rc" => HasExactPair(sequence, PRIMERS_RC)

\* the pairs <<i, j>> of a front and a back alignment whose distance
\* back_start - front_end is within 5 of LIB_LENGTH
AcceptablePairs(va) ==
    {p \in (1..Len(va.front)) \X (1..Len(va.back)) :
        /\ LIB_LENGTH - 5 <= va.back[p[2]][1] - va.front[p[1]][2]
        /\ va.back[p[2]][1] - va.front[p[1]][2] <= LIB_LENGTH + 5}

\* the first acceptable pair, front alignment first, then back alignment
FirstPair(va) ==
    CHOOSE p \in AcceptablePairs(va) :
        \A q \in AcceptablePairs(va) :
            p[1] < q[1] \/ (p[1] = q[1] /\ p[2] <= q[2])

\* the two lines of the pair p of va: the span from front_end to back_start
\* and the span from front_start to back_end
PairLines(va, p) ==
    [wo |-> SubSeq(sequence, va.front[p[1]][2] + 1, va.back[p[2]][1]),
     with |-> SubSeq(sequence, va.front[p[1]][1] + 1, va.back[p[2]][2])]

\* C18: once the dual-primer stage has run, the forward search has accepted
\* exactly when some pair of its alignments has back_start - front_end within
\* 5 of LIB_LENGTH, and its candidate is the span [front_end, back_start) of
\* the first such pair in front-major, back-minor order; the
\* reverse-complement search is asked only when the forward one found no
\* pair and follows the same rule on its own alignments; with no acceptable
\* pair in either the stage fails.
C18_FirstAcceptablePairFrontMajor ==
    Len(stages) >= 2 =>
        IF AcceptablePairs(valid_alignments) # {}
        THEN LET l == PairLines(valid_alignments, FirstPair(valid_alignments))
             IN /\ extracted.attempt = "both"
                /\ extracted.wo = l.wo
                /\ extracted.with = l.with
        ELSE IF AcceptablePairs(valid_alignments_rc) # {}
        THEN LET l == PairLines(valid_alignments_rc, FirstPair(valid_alignments_rc))
             IN /\ extracted.attempt = "both_rc"
                /\ extracted.wo = copy_reverse_complement(l.wo)
                /\ extracted.with = copy_reverse_complement(l.with)
        ELSE /\ ~stages[2].success
             /\ extracted.attempt \notin {"both", "both_rc"}

C18_Witness ==
    /\ Len(stages) = 2
    /\ extracted.attempt = "both"
    /\ AcceptablePairs(valid_alignments) = {<<1, 2>>, <<2, 1>>, <<2, 2>>}
    /\ Len(extracted.wo) = LIB_LENGTH - 5

\* C19: a forward extraction by the exact-match stage or by the dual-primer
\* stage, with the primers located at [front_start, front_end) and
\* [back_start, back_end), gives read[front_end:back_start] as the line
\* without primers and read[front_start:back_end] as the line with primers;
\* for the exact stage the primers are located at their first occurrences and
\* the line with primers is the front primer, the insert and the back primer.
C19_LinesAreHalfOpenSpans ==
    /\ extracted.attempt = "exact" =>
          LET front_start == find(sequence, PRIMERS.front)
              front_end == front_start + Len(PRIMERS.front)
              back_start == find(sequence, PRIMERS.back)
              back_end == back_start + Len(PRIMERS.back)
          IN /\ extracted.wo = SubSeq(sequence, front_end + 1, back_start)
             /\ extracted.with = SubSeq(sequence, front_start + 1, back_end)
             /\ extracted.with = PRIMERS.front \o extracted.wo \o PRIMERS.back
    /\ extracted.attempt = "both" =>
          \E p \in AcceptablePairs(valid_alignments) :
              /\ extracted.wo = PairLines(valid_alignments, p).wo
              /\ extracted.with = PairLines(valid_alignments, p).with

\* the first alignment of the list with LIB_LENGTH bases of the read before
\* it, or 0
FirstFittingBack(vab) ==
    IF \E i \in 1..Len(vab) : vab[i][1] - LIB_LENGTH >= 0
    THEN CHOOSE i \in 1..Len(vab) :
            /\ vab[i][1] - LIB_LENGTH >= 0
            /\ \A j \in 1..(i - 1) : vab[j][1] - LIB_LENGTH < 0
    ELSE 0

\* C20: when the single-primer stage has run and neither front-primer search
\* extracted, the forward back-primer search skips every alignment with
\* back_start - LIB_LENGTH < 0 and extracts, for the first alignment not
\* skipped, the window [back_start - LIB_LENGTH, back_start) of the read (a
\* window starting at position 0 included); when every alignment is skipped it
\* extracts nothing and the stage goes on.
C20_BackWindowRejectedOnlyBeforeStart ==
    (Len(stages) = 3 /\ extracted.attempt \notin {"front", "front_rc"}) =>
        LET k == FirstFittingBack(valid_alignments.back)
        IN IF k = 0 THEN extracted.attempt # "back"
           ELSE /\ extracted.attempt = "back"
                /\ extracted.wo =
                      SubSeq(sequence, valid_alignments.back[k][1] - LIB_LENGTH + 1,
                             valid_alignments.back[k][1])
                /\ extracted.with =
                      SubSeq(sequence, valid_alignments.back[k][1] - LIB_LENGTH + 1,
                             valid_alignments.back[k][2])

C20_Witness ==
    /\ Len(stages) = 3
    /\ extracted.attempt = "back"
    /\ Len(valid_alignments.back) = 2
    /\ valid_alignments.back[1][1] < LIB_LENGTH
    /\ valid_alignments.back[2][1] = LIB_LENGTH
    /\ Len(extracted.wo) = LIB_LENGTH

SingleOrder == <<"front", "front_rc", "back", "back_rc">>

\* what the helper of one attempt of the single-primer stage extracts
SingleAttempt(a) ==
    CASE a = "front" ->
            search_single_front_primer_helper(valid_alignments.front, sequence, FALSE)
      [] a = "front_rc" ->
            search_single_front_primer_helper(valid_alignments_rc.front, sequence, TRUE)
      [] a = "back" ->
            search_single_back_primer_helper(valid_alignments.back, sequence, FALSE)
      [] a = "back_rc" ->
            search_single_back_primer_helper(valid_alignments_rc.back, sequence, TRUE)

\* C21: the attempts the single-primer stage makes are a prefix of front,
\* front reverse-complement, back, back reverse-complement; every attempt but
\* the last extracted nothing; when the last attempt made extracts, its
\* candidate is the read's extraction and the result is not NO_MATCH_FOUND;
\* otherwise all four attempts were made and the result is NO_MATCH_FOUND.
C21_SingleAttemptsInOrderFirstWins ==
    Len(stages) = 3 =>
        LET t == stages[3].tried
            last == t[Len(t)]
        IN /\ Len(t) \in 1..4
           /\ t = SubSeq(SingleOrder, 1, Len(t))
           /\ \A i \in 1..(Len(t) - 1) : ~SingleAttempt(t[i]).found
           /\ IF SingleAttempt(last).found
              THEN /\ extracted = Tag(SingleAttempt(last), last)
                   /\ result \in {FOUND_VALID_MATCH, FOUND_INVALID_MATCH}
              ELSE /\ Len(t) = 4
                   /\ ~extracted.found
                   /\ result = NO_MATCH_FOUND

C21_Witness ==
    /\ Len(stages) = 3
    /\ stages[3].tried = <<"front", "front_rc", "back">>
    /\ extracted.attempt = "back"
    /\ SingleAttempt("back_rc").found

\* the sum of a counter over the first n workers of fs that returned a
\* Statistics
RECURSIVE TotalOf(_, _, _)
TotalOf(fs, n, field) ==
    IF n = 0 THEN 0
    ELSE TotalOf(fs, n - 1, field)
            + (IF fs[n].state # "pending" /\ ~fs[n].raised
               THEN fs[n].stats[field] ELSE 0)

\* every file of the corpus has a worker in fs, every worker has finished and
\* been collected, and the counters of es hold every Statistics returned
AllReported(fs, es) ==
    /\ Len(fs) = Len(corpus)
    /\ \A f \in 1..Len(fs) : fs[f].state = "collected"
    /\ \A field \in {"seq_count", "filtered_out_count", "valid_seq_count",
                     "invalid_seq_count"} :
          es[field] = TotalOf(fs, Len(fs), field)

\* C22: when objective is about to compute the loss, and for every loss
\* recorded, every worker submitted for the pass had finished and been
\* collected and the aggregate held the Statistics of every worker that did
\* not raise.
C22_LossOnlyAfterAllWorkersReported ==
    /\ pc = "objective" => AllReported(futures, eval_stats)
    /\ \A i \in 1..Len(trials) : AllReported(trials[i].futures, trials[i].eval_stats)

C22_Witness ==
    /\ Len(trials) = 1
    /\ Len(trials[1].futures) = 2
    /\ trials[1].futures[1].raised
    /\ ~trials[1].futures[2].raised
    /\ trials[1].futures[2].stats.seq_count = 1
    /\ trials[1].eval_stats.seq_count = 1
    /\ trials[1].eval_stats.loss.num >= 0

\* C23: no path is open for writing in two workers at once.
C23_StreamsOwnedByOneWorker ==
    \A v, w \in 1..Len(workers) :
        v # w => workers[v].open \cap workers[w].open = {}

\* every sequence of the Statistics is counted in exactly one class
Balanced(st) ==
    st.seq_count = st.filtered_out_count + st.valid_seq_count + st.invalid_seq_count

\* the percentage of the Statistics is that of its counters
PercentOfCounters(st) ==
    st.seq_count > 0 =>
        RatEq(st.percent_filtered, Rat(st.filtered_out_count * 100, st.seq_count))

\* C24: in parameter-search mode the Statistics of every file, the aggregate
\* after every aggregation step and the aggregate of every recorded trial have
\* seq_count = filtered_out_count + valid_seq_count + invalid_seq_count, and
\* the aggregate percent_filtered is filtered_out_count / seq_count * 100 of
\* its counters whenever seq_count > 0.
C24_CountersPartitionTheReads ==
    MACHINE_LEARNING_MODE =>
        /\ \A f \in 1..Len(futures) :
              /\ Balanced(futures[f].stats)
              /\ PercentOfCounters(futures[f].stats)
        /\ Balanced(eval_stats)
        /\ PercentOfCounters(eval_stats)
        /\ \A i \in 1..Len(trials) :
              /\ Balanced(trials[i].eval_stats)
              /\ PercentOfCounters(trials[i].eval_stats)

C24_Witness ==
    /\ MACHINE_LEARNING_MODE
    /\ pc = "filtering"
    /\ Len(futures) = 2
    /\ futures[1].state = "collected"
    /\ futures[2].state = "finished"
    /\ futures[2].stats.filtered_out_count = 1
    /\ eval_stats.seq_count = 2
    /\ eval_stats.valid_seq_count = 1
    /\ eval_stats.invalid_seq_count = 1
    /\ eval_stats.filtered_out_count = 0

\* the trial filtered a larger share of the corpus than the naive baseline
Penalised(t) == RatLess(naive_percent_filtered, t.eval_stats.percent_filtered)

\* C25: every recorded loss lies in [0, 200]; the loss of a trial that
\* filtered more than the naive baseline is at least 100 and the loss of any
\* other trial is at most 100, so that no penalised trial has a loss
\* strictly below that of an unpenalised one.
C25_LossBandsByPenalty ==
    /\ \A i \in 1..Len(trials) :
          LET loss == trials[i].eval_stats.loss
          IN /\ ~RatLess(loss, Rat(0, 1))
             /\ ~RatLess(Rat(200, 1), loss)
             /\ IF Penalised(trials[i])
                THEN ~RatLess(loss, Rat(100, 1))
                ELSE ~RatLess(Rat(100, 1), loss)
    /\ \A i, j \in 1..Len(trials) :
          (Penalised(trials[i]) /\ ~Penalised(trials[j]))
              => ~RatLess(trials[i].eval_stats.loss, trials[j].eval_stats.loss)

C25_Witness ==
    \E i, j \in 1..Len(trials) :
        /\ Penalised(trials[i])
        /\ ~Penalised(trials[j])
        /\ RatEq(trials[i].eval_stats.loss, trials[j].eval_stats.loss)
        /\ trials[j].eval_stats.invalid_seq_count = trials[j].eval_stats.seq_count

\* the first occurrence of sub in s (s holds it)
FirstOccurrence(s, sub) ==
    CHOOSE i \in Occurrences(s, sub) : \A j \in Occurrences(s, sub) : i <= j

\* the read is kept in the orientation of primers: both primers occur and,
\* at their first occurrences, the span from the front primer's end to the
\* back primer's start has a length within 5 of LIB_LENGTH; or the front
\* primer alone occurs with at least LIB_LENGTH - 5 bases after it; or the
\* back primer alone occurs with at least LIB_LENGTH - 5 bases before it
KeptIn(s, primers) ==
    LET has_front == Occurrences(s, primers.front) # {}
        has_back == Occurrences(s, primers.back) # {}
    IN IF has_front /\ has_back
       THEN LET gap == FirstOccurrence(s, primers.back)
                          - (FirstOccurrence(s, primers.front) + Len(primers.front))
            IN LIB_LENGTH - 5 <= gap /\ gap <= LIB_LENGTH + 5
       ELSE IF has_front
       THEN Len(s) - (FirstOccurrence(s, primers.front) + Len(primers.front))
                >= LIB_LENGTH - 5
       ELSE IF has_back
       THEN FirstOccurrence(s, primers.back) >= LIB_LENGTH - 5
       ELSE FALSE

\* the reads of the first n files of the corpus kept in neither orientation
RECURSIVE NotKept(_)
NotKept(n) ==
    IF n = 0 THEN 0
    ELSE NotKept(n - 1)
            + Cardinality({r \in corpus[n] :
                              ~KeptIn(r, PRIMERS) /\ ~KeptIn(r, PRIMERS_RC)})

RECURSIVE ReadsOf(_)
ReadsOf(n) == IF n = 0 THEN 0 ELSE ReadsOf(n - 1) + Cardinality(corpus[n])

\* C26: the percentage the naive baseline returns is that of the reads kept in
\* neither the forward nor the reverse-complement orientation, a read being
\* kept in an orientation exactly as KeptIn says (no single-primer window when
\* both primers occur out of tolerance); for a directory without reads it
\* returns nothing.
C26_NaiveKeepsByFirstOccurrences ==
    /\ pc = "fmin" =>
          /\ ReadsOf(Len(corpus)) > 0
          /\ naive_percent_filtered
                = Rat(NotKept(Len(corpus)) * 100, ReadsOf(Len(corpus)))
    /\ pc = "aborted" => ReadsOf(Len(corpus)) = 0

C26_Witness ==
    /\ pc = "fmin"
    /\ Len(corpus) = 2
    /\ corpus[1] = {BothRead(0, 107)}
    /\ corpus[2] = {copy_reverse_complement(FRONT_PRIMER \o Fill(LIB_LENGTH - 5))}
    /\ naive_percent_filtered = Rat(100, 2)

====
